---- MODULE Spec2Model ----
(***************************************************************************)
(* Model of TaskScheduler (src/schedulingtask.py): greedy LPT assignment   *)
(* over a binary min-heap of (load, machine_id) pairs, the local-search    *)
(* loop that relocates the largest task of the bottleneck machine, and     *)
(* calculate_statistics.                                                   *)
(*                                                                         *)
(* Python lists indexed by machine id are functions over 0..m-1; a         *)
(* machine's task list and the heap are sequences (position p of the       *)
(* Python list is element p+1).  A schedule entry is <<task_id, duration>>.*)
(* A call that raises leaves the name of the exception in `error`.         *)
(* ls_result, stats and overwritten describe the call named by last_call   *)
(* and are cleared by every other call; overwritten tells what the last    *)
(* lpt_schedule found in the instance: "fresh" (never assigned), "greedy"  *)
(* (an untouched earlier assignment) or "moved" (one changed by moves).    *)
(***************************************************************************)
EXTENDS Integers, Sequences, FiniteSets, TLC

\* ---------------------------------------------------------------- bounds
MaxTasks == 3
MaxDuration == 2
MaxMachines == 3
MaxIterations == 2
MaxElapsed == 0

VARIABLES tasks, num_machines, schedule, machine_loads, makespan,
          execution_time, pc, max_iterations, iterations, improved,
          last_call, assigned, overwritten, error, ls_result, stats

vars == <<tasks, num_machines, schedule, machine_loads, makespan,
          execution_time, pc, max_iterations, iterations, improved,
          last_call, assigned, overwritten, error, ls_result, stats>>

\* ------------------------------------------------------- Python builtins
MaxOf(a, b) == IF a >= b THEN a ELSE b

\* range(n)
Range(n) == 0 .. (n - 1)

RECURSIVE SumSeq(_)
\* sum(list)
SumSeq(s) == IF s = <<>> THEN 0 ELSE Head(s) + SumSeq(Tail(s))

RECURSIVE SumLoads(_, _)
\* sum of the first n entries of a list indexed from 0
SumLoads(loads, n) == IF n <= 0 THEN 0 ELSE loads[n - 1] + SumLoads(loads, n - 1)

RECURSIVE MaxFrom(_, _, _)
\* max(list[i:]) scanned left to right, best so far in acc
MaxFrom(loads, i, acc) ==
    IF i \notin DOMAIN loads THEN acc
    ELSE MaxFrom(loads, i + 1, IF loads[i] > acc THEN loads[i] ELSE acc)

\* max(list) of a non-empty list indexed from 0
ListMax(loads) == MaxFrom(loads, 1, loads[0])

RECURSIVE MinFrom(_, _, _)
MinFrom(loads, i, acc) ==
    IF i \notin DOMAIN loads THEN acc
    ELSE MinFrom(loads, i + 1, IF loads[i] < acc THEN loads[i] ELSE acc)

\* min(list) of a non-empty list indexed from 0
ListMin(loads) == MinFrom(loads, 1, loads[0])

RECURSIVE IndexFrom(_, _, _)
IndexFrom(loads, v, i) == IF loads[i] = v THEN i ELSE IndexFrom(loads, v, i + 1)

\* list.index(v): the lowest index holding v (v is known to occur)
ListIndex(loads, v) == IndexFrom(loads, v, 0)

RECURSIVE Reverse(_)
Reverse(s) == IF s = <<>> THEN <<>> ELSE Append(Reverse(Tail(s)), Head(s))

\* list.pop(p) seen from the list: the list without its element at position p (0-based)
PopAt(s, p) == SubSeq(s, 1, p) \o SubSeq(s, p + 2, Len(s))

\* enumerate(self.tasks): <<index, duration>> pairs, indices from 0
Enumerate(ts) == [k \in 1..Len(ts) |-> <<k - 1, ts[k]>>]

\* --------------------------------------------------------------- sorting
RECURSIVE InsertAsc(_, _)
\* stable insertion by ascending key x[2]: x goes after every element whose key is <= its own
InsertAsc(sorted, x) ==
    IF sorted = <<>> THEN <<x>>
    ELSE IF Head(sorted)[2] <= x[2] THEN <<Head(sorted)>> \o InsertAsc(Tail(sorted), x)
    ELSE <<x>> \o sorted

RECURSIVE StableSortAsc(_)
StableSortAsc(s) ==
    IF s = <<>> THEN <<>>
    ELSE InsertAsc(StableSortAsc(SubSeq(s, 1, Len(s) - 1)), s[Len(s)])

\* a stable sort by descending key that ignores the reverse-sort-reverse steps:
\* equal durations come out with the highest index first
SortedTasksUnstable(ts) == Reverse(StableSortAsc(Enumerate(ts)))

\* sorted(enumerate(self.tasks), key=lambda x: x[1], reverse=True):
\* the list is reversed, sorted stably by ascending key and reversed again,
\* so equal durations keep their original (ascending index) order
SortedTasks(ts) == Reverse(StableSortAsc(Reverse(Enumerate(ts))))

\* ------------------------------------------------------------------ heapq
\* a comparison with the wrong sign: the heap would hand out the largest pair
TupleLessReversed(a, b) == a[1] > b[1] \/ (a[1] = b[1] /\ a[2] > b[2])

\* tuple comparison (load, machine_id) < (load, machine_id)
TupleLess(a, b) == a[1] < b[1] \/ (a[1] = b[1] /\ a[2] < b[2])

\* heap[p] = x for a 0-based position p
HeapSet(heap, p, x) == [heap EXCEPT ![p + 1] = x]

RECURSIVE SiftDownLoop(_, _, _, _)
SiftDownLoop(heap, startpos, pos, newitem) ==
    IF pos > startpos
    THEN LET parentpos == (pos - 1) \div 2
             parent == heap[parentpos + 1]
         IN IF TupleLess(newitem, parent)
            THEN SiftDownLoop(HeapSet(heap, pos, parent), startpos, parentpos, newitem)
            ELSE HeapSet(heap, pos, newitem)
    ELSE HeapSet(heap, pos, newitem)

\* heapq._siftdown(heap, startpos, pos)
SiftDown(heap, startpos, pos) == SiftDownLoop(heap, startpos, pos, heap[pos + 1])

RECURSIVE SiftUpLoop(_, _, _, _)
SiftUpLoop(heap, startpos, pos, newitem) ==
    LET endpos == Len(heap)
        childpos == 2 * pos + 1
    IN IF childpos < endpos
       THEN LET rightpos == childpos + 1
                c == IF rightpos < endpos /\ ~TupleLess(heap[childpos + 1], heap[rightpos + 1])
                     THEN rightpos ELSE childpos
            IN SiftUpLoop(HeapSet(heap, pos, heap[c + 1]), startpos, c, newitem)
       ELSE SiftDown(HeapSet(heap, pos, newitem), startpos, pos)

\* heapq._siftup(heap, pos)
SiftUp(heap, pos) == SiftUpLoop(heap, pos, pos, heap[pos + 1])

RECURSIVE HeapifyFrom(_, _)
HeapifyFrom(heap, i) == IF i < 0 THEN heap ELSE HeapifyFrom(SiftUp(heap, i), i - 1)

\* heapq.heapify(x): sift up positions n/2-1 down to 0
Heapify(heap) == HeapifyFrom(heap, (Len(heap) \div 2) - 1)

\* heapq.heappop(heap) on a non-empty heap: the popped item and the heap left
HeapPop(heap) ==
    LET lastelt == heap[Len(heap)]
        rest == SubSeq(heap, 1, Len(heap) - 1)
    IN IF rest # <<>>
       THEN [item |-> rest[1], heap |-> SiftUp(HeapSet(rest, 0, lastelt), 0)]
       ELSE [item |-> lastelt, heap |-> rest]

\* heapq.heappush(heap, item)
HeapPush(heap, item) == SiftDown(Append(heap, item), 0, Len(heap))

\* ----------------------------------------------------------- lpt_schedule
\* [[] for _ in range(num_machines)]
EmptySchedule(m) == [i \in Range(m) |-> <<>>]

\* [0] * num_machines
ZeroLoads(m) == [i \in Range(m) |-> 0]

\* machine_heap = [(0, i) for i in range(self.num_machines)]; heapq.heapify(machine_heap)
InitialHeap(m) == Heapify([k \in 1..m |-> <<0, k - 1>>])

\* a load update that forgets the load the machine already carries
AssignedLoadForgetful(min_load, task_duration) == task_duration

\* self.machine_loads[machine_id] = min_load + task_duration
AssignedLoad(min_load, task_duration) == min_load + task_duration

\* one pass of the assignment loop body for task = <<task_id, task_duration>>
AssignTask(st, task) ==
    LET popped == HeapPop(st.heap)
        min_load == popped.item[1]
        machine_id == popped.item[2]
        new_load == AssignedLoad(min_load, task[2])
    IN [schedule |-> [st.schedule EXCEPT ![machine_id] = Append(@, task)],
        machine_loads |-> [st.machine_loads EXCEPT ![machine_id] = new_load],
        heap |-> HeapPush(popped.heap, <<new_load, machine_id>>)]

RECURSIVE AssignLoop(_, _)
\* for task_id, task_duration in sorted_tasks: ...
AssignLoop(st, sorted) ==
    IF sorted = <<>> THEN st ELSE AssignLoop(AssignTask(st, Head(sorted)), Tail(sorted))

\* a reset that keeps the task lists the instance already holds
ResetScheduleKept(sched, m) == sched

\* self.schedule = [[] for _ in range(self.num_machines)], whatever it held
ResetSchedule(sched, m) == EmptySchedule(m)

\* a reset that makes one load entry too many
ResetLoadsExtra(loads, m) == ZeroLoads(m + 1)

\* self.machine_loads = [0] * self.num_machines, whatever it held
ResetLoads(loads, m) == ZeroLoads(m)

\* the schedule and loads lpt_schedule leaves behind (num_machines >= 1) when
\* it is called on an instance that holds schedule sched and loads loads
LptAssignmentFrom(sched, loads, ts, m) ==
    AssignLoop([schedule |-> ResetSchedule(sched, m), machine_loads |-> ResetLoads(loads, m),
                heap |-> InitialHeap(m)], SortedTasks(ts))

\* the same for a freshly constructed instance
LptAssignment(ts, m) == LptAssignmentFrom(EmptySchedule(m), ZeroLoads(m), ts, m)

\* a makespan that reports the lightest machine
LptMakespanOfMin(loads) == ListMin(loads)

\* self.makespan = max(self.machine_loads)
LptMakespan(loads) == ListMax(loads)

\* ------------------------------------------------------------------ inputs
Durations == (-1) .. MaxDuration

MachineCounts == (-1) .. MaxMachines

TaskLists == UNION {[1..n -> Durations] : n \in 0..MaxTasks}

\* run_small_example: 10 tasks on 3 machines
SmallExampleTasks == <<10, 5, 8, 7, 12, 15, 6, 9, 11, 4>>

SmallExampleMachines == 3

\* four equal tasks on 2 machines: the greedy loads come out equal
BalancedExample == << <<5, 5, 5, 5>>, 2 >>

\* 6 tasks on 3 machines: the greedy bottleneck holds two tasks of the same,
\* largest duration, and moving one of them improves the makespan
TiedBottleneckExample == << <<1, 1, 1, 1, -1, -1>>, 3 >>

Inputs ==
    (TaskLists \X MachineCounts)
        \cup {<<SmallExampleTasks, SmallExampleMachines>>, BalancedExample, TiedBottleneckExample}

\* ---------------------------------------------------------------- __init__
\* The state right after TaskScheduler(tasks, num_machines) returned.  The
\* constructor stores its arguments unchecked, so every pair of arguments
\* yields an instance.
Init ==
    /\ \E input \in Inputs :
         /\ tasks = input[1]
         /\ num_machines = input[2]
    /\ schedule = EmptySchedule(num_machines)
    /\ machine_loads = ZeroLoads(num_machines)
    /\ makespan = 0
    /\ execution_time = 0
    /\ pc = "idle"
    /\ max_iterations = 0
    /\ iterations = 0
    /\ improved = FALSE
    /\ last_call = "init"
    /\ assigned = FALSE
    /\ overwritten = "none"
    /\ error = "none"
    /\ ls_result = <<>>
    /\ stats = <<>>

\* the locals of local_search_optimization do not exist outside a call
NoLocals ==
    /\ max_iterations' = 0
    /\ iterations' = 0
    /\ improved' = FALSE

\* lpt_schedule() on an instance with at least one machine: returns normally
LptSchedule ==
    /\ pc = "idle"
    /\ num_machines >= 1
    /\ LET st == LptAssignmentFrom(schedule, machine_loads, tasks, num_machines)
       IN /\ schedule' = st.schedule
          /\ machine_loads' = st.machine_loads
          /\ makespan' = LptMakespan(st.machine_loads)
    /\ \E elapsed \in 0..MaxElapsed : execution_time' = elapsed
    /\ last_call' = "lpt"
    /\ assigned' = TRUE
    /\ overwritten' = IF ~assigned THEN "fresh"
                      ELSE IF schedule = LptAssignment(tasks, num_machines).schedule
                           THEN "greedy" ELSE "moved"
    /\ error' = "none"
    /\ ls_result' = <<>>
    /\ stats' = <<>>
    /\ NoLocals
    /\ UNCHANGED <<tasks, num_machines, pc>>

\* lpt_schedule() with no machine: heappop on the empty heap raises IndexError
\* for the first task; with no task either, max([]) raises ValueError.  The
\* reset of schedule and loads has already happened.
LptScheduleRaises ==
    /\ pc = "idle"
    /\ num_machines <= 0
    /\ schedule' = EmptySchedule(num_machines)
    /\ machine_loads' = ZeroLoads(num_machines)
    /\ error' = IF tasks # <<>> THEN "IndexError" ELSE "ValueError"
    /\ last_call' = "lpt"
    /\ ls_result' = <<>>
    /\ stats' = <<>>
    /\ NoLocals
    /\ overwritten' = "none"
    /\ UNCHANGED <<tasks, num_machines, makespan, execution_time, pc, assigned>>

\* ----------------------------------------------- local_search_optimization
RECURSIVE LargestFrom(_, _, _)
\* scan positions p.. of a machine's task list, best 0-based position so far in best
LargestFrom(seq, p, best) ==
    IF p >= Len(seq) THEN best
    ELSE LargestFrom(seq, p + 1, IF seq[p + 1][2] > seq[best + 1][2] THEN p ELSE best)

RECURSIVE LargestFromLast(_, _, _)
LargestFromLast(seq, p, best) ==
    IF p >= Len(seq) THEN best
    ELSE LargestFromLast(seq, p + 1, IF seq[p + 1][2] >= seq[best + 1][2] THEN p ELSE best)

\* a selection that takes the latest position of a largest duration
LargestTaskIdxLast(seq) == LargestFromLast(seq, 1, 0)

\* max(range(len(seq)), key=lambda i: seq[i][1]): the earliest position of a largest duration
LargestTaskIdx(seq) == LargestFrom(seq, 1, 0)

\* max_machine = self.machine_loads.index(max(self.machine_loads))
MaxMachine(loads) == ListIndex(loads, ListMax(loads))

\* min_machine = self.machine_loads.index(min(self.machine_loads))
MinMachine(loads) == ListIndex(loads, ListMin(loads))

\* a generator that leaves out the bottleneck only
OtherMachinesButBottleneck(m, max_machine, min_machine) ==
    {i \in Range(m) : i # max_machine}

\* the machines the generator of line 107 ranges over
OtherMachines(m, max_machine, min_machine) ==
    {i \in Range(m) : i # max_machine /\ i # min_machine}

\* max(self.machine_loads[i] for i in ...) over a non-empty set of machines
MaxOver(loads, machines) ==
    CHOOSE v \in {loads[i] : i \in machines} : \A i \in machines : loads[i] <= v

\* new_max_load = self.machine_loads[max_machine] - task_to_move[1]
NewMaxLoad(loads, max_machine, task_to_move) == loads[max_machine] - task_to_move[2]

\* a target load that is left as it was when the task arrives
NewMinLoadKept(loads, min_machine, task_to_move) == loads[min_machine]

\* new_min_load = self.machine_loads[min_machine] + task_to_move[1]
NewMinLoad(loads, min_machine, task_to_move) == loads[min_machine] + task_to_move[2]

\* a hypothetical makespan that looks at the two machines of the move only
NewMakespanIgnoringOthers(others_max, new_max_load, new_min_load) ==
    MaxOf(new_max_load, new_min_load)

\* a hypothetical makespan that forgets the load the target machine ends up with
NewMakespanIgnoringTarget(others_max, new_max_load, new_min_load) ==
    MaxOf(others_max, new_max_load)

\* new_makespan = max(max(others), new_max_load, new_min_load)
NewMakespan(others_max, new_max_load, new_min_load) ==
    MaxOf(MaxOf(others_max, new_max_load), new_min_load)

\* an acceptance test that also takes moves which change nothing or make things worse
ImprovesOrNot(new_makespan, current) == TRUE

\* an acceptance test that also takes a move which leaves the makespan as it is
ImprovesOrTies(new_makespan, current) == new_makespan <= current

\* if new_makespan < self.makespan
Improves(new_makespan, current) == new_makespan < current

\* a move that appends the task to the target but leaves it on the bottleneck too
MoveTaskCopy(sched, max_machine, largest_task_idx, min_machine, task_to_move) ==
    [sched EXCEPT ![min_machine] = Append(@, task_to_move)]

\* self.schedule[max_machine].pop(largest_task_idx); self.schedule[min_machine].append(task_to_move)
MoveTask(sched, max_machine, largest_task_idx, min_machine, task_to_move) ==
    LET popped == [sched EXCEPT ![max_machine] = PopAt(@, largest_task_idx)]
    IN [popped EXCEPT ![min_machine] = Append(@, task_to_move)]

\* the candidate move of one loop iteration, once the bottleneck is known to hold a task
Candidate ==
    LET max_machine == MaxMachine(machine_loads)
        largest_task_idx == LargestTaskIdx(schedule[max_machine])
        task_to_move == schedule[max_machine][largest_task_idx + 1]
        min_machine == MinMachine(machine_loads)
        others == OtherMachines(num_machines, max_machine, min_machine)
        new_max_load == NewMaxLoad(machine_loads, max_machine, task_to_move)
        new_min_load == NewMinLoad(machine_loads, min_machine, task_to_move)
    IN [max_machine |-> max_machine, largest_task_idx |-> largest_task_idx,
        task_to_move |-> task_to_move, min_machine |-> min_machine,
        others |-> others, new_max_load |-> new_max_load, new_min_load |-> new_min_load]

\* while improved and iterations < max_iterations
LoopCondition == improved /\ iterations < max_iterations

\* the call: iterations = 0; improved = True
LocalSearchCall ==
    /\ pc = "idle"
    /\ \E cap \in (-1)..MaxIterations : max_iterations' = cap
    /\ iterations' = 0
    /\ improved' = TRUE
    /\ pc' = "loop"
    /\ last_call' = "ls"
    /\ error' = "none"
    /\ ls_result' = <<>>
    /\ stats' = <<>>
    /\ overwritten' = "none"
    /\ UNCHANGED <<tasks, num_machines, schedule, machine_loads, makespan,
                   execution_time, assigned>>

\* leaving the call with return self.makespan, iterations
ReturnFromSearch(its) ==
    /\ pc' = "idle"
    /\ ls_result' = <<makespan, its>>
    /\ NoLocals
    /\ UNCHANGED <<tasks, num_machines, schedule, machine_loads, makespan,
                   execution_time, last_call, assigned, overwritten, error, stats>>

\* leaving the call with an exception
RaiseFromSearch(exc) ==
    /\ pc' = "idle"
    /\ error' = exc
    /\ NoLocals
    /\ UNCHANGED <<tasks, num_machines, schedule, machine_loads, makespan,
                   execution_time, last_call, assigned, overwritten, ls_result, stats>>

\* the loop condition is false: return
LocalSearchReturn ==
    /\ pc = "loop"
    /\ ~LoopCondition
    /\ ReturnFromSearch(iterations)

\* max(self.machine_loads) on an instance without machines raises ValueError
LocalSearchRaisesNoMachine ==
    /\ pc = "loop"
    /\ LoopCondition
    /\ DOMAIN machine_loads = {}
    /\ RaiseFromSearch("ValueError")

\* if not self.schedule[max_machine]: break
LocalSearchBreak ==
    /\ pc = "loop"
    /\ LoopCondition
    /\ DOMAIN machine_loads # {}
    /\ schedule[MaxMachine(machine_loads)] = <<>>
    /\ ReturnFromSearch(iterations)

\* the generator of line 107 is empty (no machine besides the bottleneck and
\* the least loaded one): the inner max() raises ValueError
LocalSearchRaisesNoOther ==
    /\ pc = "loop"
    /\ LoopCondition
    /\ DOMAIN machine_loads # {}
    /\ schedule[MaxMachine(machine_loads)] # <<>>
    /\ Candidate.others = {}
    /\ RaiseFromSearch("ValueError")

\* the candidate improves the makespan: the move is made
LocalSearchMove ==
    /\ pc = "loop"
    /\ LoopCondition
    /\ DOMAIN machine_loads # {}
    /\ schedule[MaxMachine(machine_loads)] # <<>>
    /\ LET c == Candidate
       IN /\ c.others # {}
          /\ LET new_makespan == NewMakespan(MaxOver(machine_loads, c.others),
                                             c.new_max_load, c.new_min_load)
             IN /\ Improves(new_makespan, makespan)
                /\ schedule' = MoveTask(schedule, c.max_machine, c.largest_task_idx,
                                        c.min_machine, c.task_to_move)
                /\ machine_loads' = [[machine_loads EXCEPT ![c.max_machine] = c.new_max_load]
                                        EXCEPT ![c.min_machine] = c.new_min_load]
                /\ makespan' = new_makespan
    /\ improved' = TRUE
    /\ iterations' = iterations + 1
    /\ UNCHANGED <<tasks, num_machines, execution_time, pc, max_iterations,
                   last_call, assigned, overwritten, error, ls_result, stats>>

\* the candidate does not improve the makespan: improved stays False
LocalSearchNoImprovement ==
    /\ pc = "loop"
    /\ LoopCondition
    /\ DOMAIN machine_loads # {}
    /\ schedule[MaxMachine(machine_loads)] # <<>>
    /\ LET c == Candidate
       IN /\ c.others # {}
          /\ ~Improves(NewMakespan(MaxOver(machine_loads, c.others),
                                   c.new_max_load, c.new_min_load), makespan)
    /\ improved' = FALSE
    /\ UNCHANGED <<tasks, num_machines, schedule, machine_loads, makespan,
                   execution_time, pc, max_iterations, iterations,
                   last_call, assigned, overwritten, error, ls_result, stats>>

\* ---------------------------------------------------- calculate_statistics
\* Float results are kept as exact fractions <<numerator, denominator>> in
\* lowest terms with a positive denominator; the square root of load_std_dev
\* is kept symbolically as the variance it is taken of.
Abs(x) == IF x < 0 THEN -x ELSE x

RECURSIVE Gcd(_, _)
Gcd(a, b) == IF b = 0 THEN a ELSE Gcd(b, a % b)

\* n / d for d # 0
Frac(n, d) ==
    LET g == Gcd(Abs(n), Abs(d))
        sign == IF d < 0 THEN -1 ELSE 1
    IN <<sign * (n \div g), Abs(d) \div g>>

FracAdd(a, b) == Frac(a[1] * b[2] + b[1] * a[2], a[2] * b[2])

FracDiv(a, b) == Frac(a[1] * b[2], a[2] * b[1])

FracLess(a, b) == a[1] * b[2] < b[1] * a[2]

\* max(a, b): b only when it is strictly greater
FracMax(a, b) == IF FracLess(a, b) THEN b ELSE a

RECURSIVE SeqMaxFrom(_, _, _)
SeqMaxFrom(s, k, acc) ==
    IF k > Len(s) THEN acc ELSE SeqMaxFrom(s, k + 1, IF s[k] > acc THEN s[k] ELSE acc)

\* max(self.tasks) of a non-empty task list
MaxTask(ts) == SeqMaxFrom(ts, 2, ts[1])

RECURSIVE SumSquares(_, _)
SumSquares(loads, n) ==
    IF n <= 0 THEN 0 ELSE loads[n - 1] * loads[n - 1] + SumSquares(loads, n - 1)

\* statistics.variance(loads): sum((x - mean)^2) / (n - 1), written over the
\* common denominator n * (n - 1)
SampleVariance(loads, n) ==
    Frac(n * SumSquares(loads, n) - SumLoads(loads, n) * SumLoads(loads, n), n * (n - 1))

\* load / self.makespan * 100 if self.makespan > 0 else 0
Utilization(load, span) == IF span > 0 THEN Frac(load * 100, span) ELSE <<0, 1>>

RECURSIVE SumFracs(_, _)
SumFracs(f, n) == IF n <= 0 THEN <<0, 1>> ELSE FracAdd(f[n - 1], SumFracs(f, n - 1))

\* the dictionary calculate_statistics returns (num_machines >= 1, tasks non-empty)
Statistics ==
    LET m == num_machines
        total_work == SumSeq(tasks)
        average_load == Frac(total_work, m)
        load_variance == IF m > 1 THEN SampleVariance(machine_loads, m) ELSE <<0, 1>>
        utilizations == [i \in Range(m) |-> Utilization(machine_loads[i], makespan)]
        efficiency == IF makespan > 0 THEN Frac(total_work * 100, m * makespan) ELSE <<0, 1>>
        lower_bound == FracMax(average_load, <<MaxTask(tasks), 1>>)
        approximation_ratio ==
            IF lower_bound[1] > 0 THEN FracDiv(<<makespan, 1>>, lower_bound) ELSE <<1, 1>>
    IN [total_tasks |-> Len(tasks),
        num_machines |-> m,
        total_work |-> total_work,
        makespan |-> makespan,
        average_load |-> average_load,
        load_std_dev |-> [sqrt_of |-> load_variance],
        load_variance |-> load_variance,
        min_load |-> ListMin(machine_loads),
        max_load |-> ListMax(machine_loads),
        utilizations |-> utilizations,
        average_utilization |-> FracDiv(SumFracs(utilizations, m), <<m, 1>>),
        efficiency |-> efficiency,
        lower_bound |-> lower_bound,
        approximation_ratio |-> approximation_ratio,
        execution_time |-> execution_time]

\* what calculate_statistics raises in the current state, "none" if it returns:
\* total_work / 0 (line 126), max([]) of an empty task list (line 138),
\* min([]) of an empty load list (line 149)
StatisticsError ==
    IF num_machines = 0 THEN "ZeroDivisionError"
    ELSE IF tasks = <<>> THEN "ValueError"
    ELSE IF num_machines < 0 THEN "ValueError"
    ELSE "none"

\* the loads in ascending order
SortedLoads(loads, m) ==
    LET sorted == StableSortAsc([k \in 1..m |-> <<k - 1, loads[k - 1]>>])
    IN [i \in Range(m) |-> sorted[i + 1][2]]

\* a calculate_statistics that sorts self.machine_loads in place to read off
\* the smallest and the largest load
CalculateStatisticsSortingLoads ==
    /\ pc = "idle"
    /\ StatisticsError = "none"
    /\ stats' = <<Statistics>>
    /\ machine_loads' = SortedLoads(machine_loads, num_machines)
    /\ last_call' = "stats"
    /\ error' = "none"
    /\ ls_result' = <<>>
    /\ overwritten' = "none"
    /\ UNCHANGED <<tasks, num_machines, schedule, makespan,
                   execution_time, pc, max_iterations, iterations, improved, assigned>>

\* calculate_statistics() returning its dictionary
CalculateStatistics ==
    /\ pc = "idle"
    /\ StatisticsError = "none"
    /\ stats' = <<Statistics>>
    /\ last_call' = "stats"
    /\ error' = "none"
    /\ ls_result' = <<>>
    /\ overwritten' = "none"
    /\ UNCHANGED <<tasks, num_machines, schedule, machine_loads, makespan,
                   execution_time, pc, max_iterations, iterations, improved, assigned>>

\* calculate_statistics() raising
CalculateStatisticsRaises ==
    /\ pc = "idle"
    /\ StatisticsError # "none"
    /\ stats' = <<>>
    /\ last_call' = "stats"
    /\ error' = StatisticsError
    /\ ls_result' = <<>>
    /\ overwritten' = "none"
    /\ UNCHANGED <<tasks, num_machines, schedule, machine_loads, makespan,
                   execution_time, pc, max_iterations, iterations, improved, assigned>>

\* ----------------------------------------------------------- specification
Next ==
    \/ LptSchedule
    \/ LptScheduleRaises
    \/ LocalSearchCall
    \/ LocalSearchReturn
    \/ LocalSearchRaisesNoMachine
    \/ LocalSearchBreak
    \/ LocalSearchRaisesNoOther
    \/ LocalSearchMove
    \/ LocalSearchNoImprovement
    \/ CalculateStatistics
    \/ CalculateStatisticsRaises

Spec == Init /\ [][Next]_vars

\* ------------------------------------------------------------- properties
\* machine_count >= 1 and every duration >= 0
ValidInstance ==
    /\ num_machines >= 1
    /\ \A k \in 1..Len(tasks) : tasks[k] >= 0

\* a call of local_search_optimization has come back (returned or raised)
SearchFinished == last_call = "ls" /\ pc = "idle"

\* the makespan lpt_schedule produces for this instance
GreedyMakespan == LptMakespan(LptAssignment(tasks, num_machines).machine_loads)

\* C1: on a valid instance (machine_count >= 1, durations >= 0) a call of
\* local_search_optimization made after lpt_schedule comes back without an
\* exception, whatever the machine count, the task list and the iteration cap.
C1_SearchNeverRaises ==
    (ValidInstance /\ assigned /\ SearchFinished) => error = "none"

\* C2: conservation: once lpt_schedule has run, and after every local-search
\* move that follows it, the machine loads add up to the sum of the durations.
C2_Conservation ==
    assigned => SumLoads(machine_loads, num_machines) = SumSeq(tasks)

\* a local-search move has been made and the loads still add up to a non-zero total
C2_Witness ==
    /\ assigned
    /\ pc = "loop"
    /\ iterations >= 1
    /\ SumSeq(tasks) > 0
    /\ SumLoads(machine_loads, num_machines) = SumSeq(tasks)

\* the places <<machine, position>> of the schedule that hold task id
PlacesOf(id) ==
    {mp \in UNION {{<<i, p>> : p \in 1..Len(schedule[i])} : i \in Range(num_machines)} :
        schedule[mp[1]][mp[2]][1] = id}

RECURSIVE CountEntries(_)
\* number of entries on machines 0..n-1
CountEntries(n) == IF n <= 0 THEN 0 ELSE Len(schedule[n - 1]) + CountEntries(n - 1)

\* C3: after lpt_schedule, between and after local-search moves, every task id
\* in [0, n) sits in exactly one place of the schedule, as the entry
\* (id, tasks[id]), and the schedule holds nothing else.
C3_EachTaskOnce ==
    assigned =>
        /\ \A id \in Range(Len(tasks)) :
              /\ Cardinality(PlacesOf(id)) = 1
              /\ \A mp \in PlacesOf(id) : schedule[mp[1]][mp[2]] = <<id, tasks[id + 1]>>
        /\ CountEntries(num_machines) = Len(tasks)

\* a move has been made on a schedule of at least two tasks, and the moved
\* task now sits at the end of a machine that holds another task as well
C3_Witness ==
    /\ assigned
    /\ pc = "loop"
    /\ iterations >= 1
    /\ Len(tasks) >= 2
    /\ \E i \in Range(num_machines) : Len(schedule[i]) >= 2
    /\ \A id \in Range(Len(tasks)) : Cardinality(PlacesOf(id)) = 1

\* C4: monotonic improvement: the makespan the instance holds during and after
\* local search never exceeds the makespan of the preceding lpt_schedule, and
\* no step of the local-search loop increases the makespan.
C4_MonotonicImprovement ==
    /\ [](assigned => makespan <= GreedyMakespan)
    /\ [][pc = "loop" => makespan' <= makespan]_vars

\* a local search that made a move has returned a makespan below the greedy one
C4_Witness ==
    /\ assigned
    /\ SearchFinished
    /\ error = "none"
    /\ ls_result[2] >= 1
    /\ makespan < GreedyMakespan

\* C5: lower bound: on a valid instance, after lpt_schedule and after any
\* local search, m * makespan >= total work and makespan >= every duration;
\* the lower_bound that calculate_statistics reports is not above the makespan.
C5_LowerBound ==
    (ValidInstance /\ assigned) =>
        /\ num_machines * makespan >= SumSeq(tasks)
        /\ \A k \in 1..Len(tasks) : makespan >= tasks[k]
        /\ stats # <<>> => ~FracLess(<<makespan, 1>>, stats[1].lower_bound)

\* statistics taken on a valid, assigned instance whose loads are uneven
C5_Witness ==
    /\ ValidInstance
    /\ assigned
    /\ stats # <<>>
    /\ Len(tasks) >= 2
    /\ stats[1].min_load < makespan
    /\ ~FracLess(<<makespan, 1>>, stats[1].lower_bound)

\* the loop is left (by return, break or exception) in this step
SearchEnds == pc = "loop" /\ pc' = "idle"

\* the three ways the loop may end: a candidate that did not improve, the
\* iteration cap, an empty bottleneck
OrdinaryStop ==
    \/ ~improved
    \/ iterations >= max_iterations
    \/ schedule[MaxMachine(machine_loads)] = <<>>

\* C6: on a valid instance every move made by local_search_optimization
\* strictly decreases the makespan, and the loop ends only at the first
\* non-improving candidate, at an empty bottleneck or at the iteration cap.
C6_TerminationByOrdinaryStop ==
    [][ValidInstance =>
          /\ (iterations' > iterations => makespan' < makespan)
          /\ (SearchEnds => OrdinaryStop)]_vars

RECURSIVE RefOrder(_, _)
\* the task ids in `remaining` by descending duration, ties by ascending index
RefOrder(ts, remaining) ==
    IF remaining = {} THEN <<>>
    ELSE LET first == CHOOSE k \in remaining : \A j \in remaining :
                          \/ ts[k + 1] > ts[j + 1]
                          \/ (ts[k + 1] = ts[j + 1] /\ k <= j)
         IN <<<<first, ts[first + 1]>>>> \o RefOrder(ts, remaining \ {first})

\* the machine of minimal load, ties going to the lowest machine id
RefMachine(loads, m) ==
    CHOOSE i \in Range(m) : \A j \in Range(m) :
        \/ loads[i] < loads[j]
        \/ (loads[i] = loads[j] /\ i <= j)

RECURSIVE RefAssign(_, _, _)
\* append each task of `order` to the machine RefMachine names
RefAssign(st, order, m) ==
    IF order = <<>> THEN st
    ELSE LET i == RefMachine(st.loads, m)
             task == Head(order)
         IN RefAssign([schedule |-> [st.schedule EXCEPT ![i] = Append(@, task)],
                       loads |-> [st.loads EXCEPT ![i] = @ + task[2]]],
                      Tail(order), m)

\* the reference LPT schedule of the instance
RefLpt ==
    RefAssign([schedule |-> [i \in Range(num_machines) |-> <<>>],
               loads |-> [i \in Range(num_machines) |-> 0]],
              RefOrder(tasks, Range(Len(tasks))), num_machines)

\* the direct trace of durations [10,5,8,7,12,15,6,9,11,4] on 3 machines
SmallExampleTrace ==
    [schedule |-> [i \in 0..2 |->
                     CASE i = 0 -> << <<5, 15>>, <<2, 8>>, <<1, 5>> >>
                       [] i = 1 -> << <<4, 12>>, <<7, 9>>, <<3, 7>> >>
                       [] i = 2 -> << <<8, 11>>, <<0, 10>>, <<6, 6>>, <<9, 4>> >>],
     loads |-> [i \in 0..2 |-> CASE i = 0 -> 28 [] i = 1 -> 28 [] i = 2 -> 31]]

\* C7: right after lpt_schedule the schedule, the loads and the makespan are
\* those of the reference LPT procedure (tasks by descending duration, ties by
\* ascending index, each appended to the least-loaded machine, ties to the
\* lowest id; makespan the largest load); the 10-task example on 3 machines
\* gives loads 28, 28, 31 and makespan 31.
C7_ReferenceLpt ==
    (assigned /\ last_call = "lpt") =>
        /\ schedule = RefLpt.schedule
        /\ machine_loads = RefLpt.loads
        /\ \A i \in Range(num_machines) : makespan >= RefLpt.loads[i]
        /\ \E i \in Range(num_machines) : makespan = RefLpt.loads[i]
        /\ (tasks = SmallExampleTasks /\ num_machines = SmallExampleMachines) =>
              /\ schedule = SmallExampleTrace.schedule
              /\ machine_loads = SmallExampleTrace.loads
              /\ makespan = 31

\* lpt_schedule has run on the 10-task example
C7_Witness ==
    /\ assigned
    /\ last_call = "lpt"
    /\ tasks = SmallExampleTasks
    /\ num_machines = SmallExampleMachines
    /\ makespan = 31

\* C8: single machine: for a non-empty list of non-negative durations on one
\* machine, lpt_schedule gives makespan = total work, and a local search that
\* follows returns (total work, 0) without an exception, whatever the cap.
C8_SingleMachine ==
    (ValidInstance /\ num_machines = 1 /\ tasks # <<>> /\ assigned) =>
        /\ makespan = SumSeq(tasks)
        /\ SearchFinished => (error = "none" /\ ls_result = <<SumSeq(tasks), 0>>)

\* C9: empty input on 3 machines: lpt_schedule gives makespan 0 and three
\* empty machines, and calculate_statistics then returns its mapping with
\* efficiency 0, every utilization 0 and approximation_ratio 1.0.
C9_EmptyInputStatistics ==
    (tasks = <<>> /\ num_machines = 3 /\ assigned) =>
        /\ makespan = 0
        /\ \A i \in Range(num_machines) : schedule[i] = <<>> /\ machine_loads[i] = 0
        /\ last_call = "stats" =>
              /\ error = "none"
              /\ stats # <<>>
              /\ stats[1].efficiency = <<0, 1>>
              /\ \A i \in Range(num_machines) : stats[1].utilizations[i] = <<0, 1>>
              /\ stats[1].approximation_ratio = <<1, 1>>

\* C10: a construction with machine_count <= 0 or with a negative duration
\* fails: no instance with such arguments exists, the only trace of them is
\* the error the constructor raised.
C10_ConstructionValidates ==
    ~ValidInstance => (last_call = "init" /\ error # "none")

\* C11: lpt_schedule resets and is deterministic: whatever the instance held
\* when it was called (nothing, an earlier assignment, an assignment changed
\* by local-search moves), it leaves the schedule, loads and makespan that a
\* freshly constructed instance with the same tasks and machine count gets.
C11_LptResets ==
    (last_call = "lpt" /\ assigned) =>
        /\ schedule = LptAssignment(tasks, num_machines).schedule
        /\ machine_loads = LptAssignment(tasks, num_machines).machine_loads
        /\ makespan = LptMakespan(LptAssignment(tasks, num_machines).machine_loads)

\* lpt_schedule has just overwritten a schedule that local search had changed
C11_Witness ==
    /\ last_call = "lpt"
    /\ assigned
    /\ overwritten = "moved"
    /\ schedule = LptAssignment(tasks, num_machines).schedule

\* the greedy assignment of the instance gives every machine the same load
GreedyBalanced ==
    \A i, j \in Range(num_machines) :
        LptAssignment(tasks, num_machines).machine_loads[i]
            = LptAssignment(tasks, num_machines).machine_loads[j]

\* C12: when lpt_schedule leaves all loads equal on m >= 2 machines, a local
\* search performs 0 iterations, returns (makespan, 0) and leaves schedule,
\* loads and makespan as they were; [5,5,5,5] on 2 machines gives loads
\* [10,10], makespan 10 and 0 iterations.
C12_BalancedNoMove ==
    (assigned /\ num_machines >= 2 /\ GreedyBalanced) =>
        /\ schedule = LptAssignment(tasks, num_machines).schedule
        /\ machine_loads = LptAssignment(tasks, num_machines).machine_loads
        /\ makespan = GreedyMakespan
        /\ pc = "loop" => iterations = 0
        /\ SearchFinished => (error = "none" /\ ls_result = <<GreedyMakespan, 0>>)
        /\ (<<tasks, num_machines>> = BalancedExample) =>
              /\ machine_loads = [i \in 0..1 |-> 10]
              /\ makespan = 10

\* a local search on the balanced example has returned (10, 0)
C12_Witness ==
    /\ <<tasks, num_machines>> = BalancedExample
    /\ assigned
    /\ SearchFinished
    /\ ls_result = <<10, 0>>
    /\ machine_loads = [i \in 0..1 |-> 10]

\* C13: calculate_statistics is read-only: a call leaves tasks, machine count,
\* schedule, loads, makespan and execution_time as they were, and a call that
\* directly follows another one gives the same outcome (same mapping, or the
\* same exception).
C13_StatisticsReadOnly ==
    [][last_call' = "stats" =>
          /\ UNCHANGED <<tasks, num_machines, schedule, machine_loads, makespan, execution_time>>
          /\ last_call = "stats" => (stats' = stats /\ error' = error)]_vars

\* statistics have been returned for a schedule that local search had improved
C13_Witness ==
    /\ last_call = "stats"
    /\ stats # <<>>
    /\ assigned
    /\ makespan < GreedyMakespan
    /\ stats[1].makespan = makespan
    /\ stats[1].execution_time = execution_time

\* C14: completeness: on an instance with machine_count >= 1 the schedule and
\* the loads hold exactly one entry per machine id in [0, m) in every reachable
\* state, machines without tasks included, and the machine count never changes.
C14_Completeness ==
    /\ [](num_machines >= 1 =>
            /\ DOMAIN schedule = Range(num_machines)
            /\ DOMAIN machine_loads = Range(num_machines)
            /\ Cardinality(DOMAIN schedule) = num_machines
            /\ Cardinality(DOMAIN machine_loads) = num_machines)
    /\ [][num_machines' = num_machines]_vars

\* an assigned schedule of 3 machines whose last machine got no task
C14_Witness ==
    /\ num_machines = 3
    /\ assigned
    /\ Len(tasks) >= 1
    /\ DOMAIN schedule = 0..2
    /\ DOMAIN machine_loads = 0..2
    /\ schedule[2] = <<>>

\* the loop makes a move in this step
MoveMade == iterations' > iterations

\* src is the lowest-id machine of maximal load
IsBottleneck(src) ==
    \A j \in Range(num_machines) :
        /\ machine_loads[j] <= machine_loads[src]
        /\ j < src => machine_loads[j] < machine_loads[src]

\* dst is the lowest-id machine of minimal load
IsTrough(dst) ==
    \A j \in Range(num_machines) :
        /\ machine_loads[j] >= machine_loads[dst]
        /\ j < dst => machine_loads[j] > machine_loads[dst]

\* p is the earliest position of a largest duration in the task list seq
IsLargestAt(seq, p) ==
    \A q \in 1..Len(seq) :
        /\ seq[q][2] <= seq[p][2]
        /\ q < p => seq[q][2] < seq[p][2]

\* seq without its p-th entry, the others in their order
Without(seq, p) == [k \in 1..(Len(seq) - 1) |-> IF k < p THEN seq[k] ELSE seq[k + 1]]

\* C15: every move made by local_search_optimization takes exactly one task,
\* the largest one (earliest position on ties) of the lowest-id maximum-load
\* machine, and appends it to the list of the lowest-id minimum-load machine;
\* the tasks left on the bottleneck keep their order and the lists and loads
\* of all other machines stay as they were.
C15_RestrictedMove ==
    [][MoveMade =>
          \E src, dst \in Range(num_machines) :
              /\ src # dst
              /\ IsBottleneck(src)
              /\ IsTrough(dst)
              /\ \E p \in 1..Len(schedule[src]) :
                    /\ IsLargestAt(schedule[src], p)
                    /\ schedule'[src] = Without(schedule[src], p)
                    /\ schedule'[dst] = Append(schedule[dst], schedule[src][p])
              /\ \A i \in Range(num_machines) \ {src, dst} :
                    /\ schedule'[i] = schedule[i]
                    /\ machine_loads'[i] = machine_loads[i]]_vars

\* the first move on the example whose bottleneck holds two largest tasks:
\* the earlier one (task 0) has gone to the end of machine 1, task 3 stays
C15_Witness ==
    /\ <<tasks, num_machines>> = TiedBottleneckExample
    /\ pc = "loop"
    /\ iterations = 1
    /\ schedule[0] = << <<3, 1>> >>
    /\ schedule[1] = << <<1, 1>>, <<4, -1>>, <<5, -1>>, <<0, 1>> >>
    /\ schedule[2] = << <<2, 1>> >>

\* the loads after the largest task at position p of src has gone to dst
LoadsAfterMove(src, dst, p) ==
    LET d == schedule[src][p][2]
        taken == [machine_loads EXCEPT ![src] = @ - d]
    IN [taken EXCEPT ![dst] = @ + d]

\* moving the candidate (largest task of the bottleneck to the trough) would
\* leave every machine with a load strictly below the current makespan
CandidateImproves ==
    \E src, dst \in Range(num_machines) :
        /\ IsBottleneck(src)
        /\ IsTrough(dst)
        /\ \E p \in 1..Len(schedule[src]) :
              /\ IsLargestAt(schedule[src], p)
              /\ \A i \in Range(num_machines) : LoadsAfterMove(src, dst, p)[i] < makespan

\* the schedule is changed inside the loop
ScheduleMoved == pc = "loop" /\ schedule' # schedule

C17_MakespanIsMaxLoad ==
    num_machines >= 1 =>
        /\ \A i \in Range(num_machines) : machine_loads[i] <= makespan
        /\ \E i \in Range(num_machines) : machine_loads[i] = makespan
        /\ (\A i \in Range(num_machines) : machine_loads[i] = 0) => makespan = 0
        /\ stats # <<>> => stats[1].makespan = stats[1].max_load

\* statistics of a schedule that local search has changed report the stored
\* makespan as the largest load
C17_Witness ==
    /\ last_call = "stats"
    /\ stats # <<>>
    /\ makespan < GreedyMakespan
    /\ stats[1].max_load = makespan
    /\ stats[1].makespan = makespan
    /\ stats[1].min_load < makespan

RECURSIVE SumDurations(_)
\* the durations of the entries of a machine's task list, added up
SumDurations(seq) == IF seq = <<>> THEN 0 ELSE Head(seq)[2] + SumDurations(Tail(seq))

\* C18: in every reachable state the cached load of each machine is the sum
\* of the durations of the tasks in its list.
C18_LoadsMatchSchedule ==
    \A i \in Range(num_machines) : machine_loads[i] = SumDurations(schedule[i])

\* after a move: the target machine holds several tasks adding up to its
\* non-zero cached load, the bottleneck has lost a task
C18_Witness ==
    /\ assigned
    /\ iterations >= 1
    /\ \E i \in Range(num_machines) :
          /\ Len(schedule[i]) >= 2
          /\ machine_loads[i] # 0
          /\ machine_loads[i] = SumDurations(schedule[i])
    /\ \E i \in Range(num_machines) :
          /\ schedule[i] # LptAssignment(tasks, num_machines).schedule[i]
          /\ machine_loads[i] = SumDurations(schedule[i])

\* the duration of the task assigned last to a machine with task list seq
LastDuration(seq) == seq[Len(seq)][2]

\* C19: greedy balance: right after lpt_schedule on a valid instance, every
\* machine that holds a task has, without the task assigned to it last, a load
\* no larger than the load of any machine; hence
\* m * makespan <= total work + (m - 1) * longest duration.
C19_GreedyBalance ==
    (ValidInstance /\ assigned /\ last_call = "lpt") =>
        /\ \A i \in Range(num_machines) :
              schedule[i] # <<>> =>
                  \A j \in Range(num_machines) :
                      machine_loads[i] - LastDuration(schedule[i]) <= machine_loads[j]
        /\ \A k \in 1..Len(tasks) :
              (\A q \in 1..Len(tasks) : tasks[q] <= tasks[k]) =>
                  num_machines * makespan <= SumSeq(tasks) + (num_machines - 1) * tasks[k]

\* a greedy assignment with uneven loads: a machine with several tasks is
\* heavier than another one, but not without its last task
C19_Witness ==
    /\ ValidInstance
    /\ assigned
    /\ last_call = "lpt"
    /\ \E i, j \in Range(num_machines) :
          /\ Len(schedule[i]) >= 2
          /\ machine_loads[j] < machine_loads[i]
          /\ machine_loads[i] - LastDuration(schedule[i]) <= machine_loads[j]

\* C20: precondition of every move made by local_search_optimization: the
\* bottleneck and the least-loaded machine differ, a third machine exists (so
\* no move is made with machine_count <= 2), the moved duration d satisfies
\* 0 < d < load[bottleneck] - load[least-loaded] as measured before the move,
\* and no machine ends up below the minimum load of before.
C20_MovePrecondition ==
    [][ScheduleMoved =>
          /\ num_machines >= 3
          /\ \E src, dst \in Range(num_machines) :
                /\ src # dst
                /\ IsBottleneck(src)
                /\ IsTrough(dst)
                /\ Range(num_machines) \ {src, dst} # {}
                /\ \E p \in 1..Len(schedule[src]) :
                      /\ IsLargestAt(schedule[src], p)
                      /\ 0 < schedule[src][p][2]
                      /\ schedule[src][p][2] < machine_loads[src] - machine_loads[dst]
                      /\ schedule'[dst] = Append(schedule[dst], schedule[src][p])
                /\ \A i \in Range(num_machines) : machine_loads'[i] >= machine_loads[dst]]_vars

\* after a move on 3 machines every load is above the smallest greedy load
C20_Witness ==
    /\ num_machines = 3
    /\ pc = "loop"
    /\ iterations >= 1
    /\ \E j \in Range(num_machines) :
          /\ \A i \in Range(num_machines) :
                LptAssignment(tasks, num_machines).machine_loads[j]
                    <= LptAssignment(tasks, num_machines).machine_loads[i]
          /\ \A i \in Range(num_machines) :
                machine_loads[i] > LptAssignment(tasks, num_machines).machine_loads[j]

====
